---- MODULE Spec2Model ----
(***************************************************************************)
(* Task orchestration and model lifecycle of the EasyVideo AI service.     *)
(*                                                                         *)
(* The model follows src/ai-service/api_server.py (the request handlers,   *)
(* the task_progress registry, the lazy generator singletons, the cleanup  *)
(* timer and the progress stream) and the generator classes under          *)
(* src/ai-service/modules (video_generator.py, image_generator.py,         *)
(* image_editor.py), and the /video/generate handler of main.py.           *)
(*                                                                         *)
(* Scheduling.  The handlers and initialize_and_generate_video are         *)
(* coroutines of one asyncio event loop: the code between two awaits that  *)
(* suspend is one atomic step with respect to the other coroutines.        *)
(* get_video_generator, generate_from_image and the final unload_model of  *)
(* the video path run on threads of the default executor, so their steps   *)
(* interleave with each other and with the event loop at every access to   *)
(* shared state.  generate_image awaits ImageGenerator.generate directly;  *)
(* nothing inside it suspends, so the handler keeps the event loop from    *)
(* its first statement to its return (loop_owner).                         *)
(*                                                                         *)
(* Status texts.  The video generator passes Chinese progress messages as  *)
(* the status argument of its callback; they are written here as the       *)
(* tokens "msg_..." (one token per message of the source).                 *)
(***************************************************************************)
EXTENDS Integers, FiniteSets, Sequences, TLC

\* ---------------------------------------------------------------- bounds
MaxRuns == 2
MaxWorkers == 2
NumImages == 2
FewRuns == 1

Runs == 1..MaxRuns
\* the progress streams followed; a stream only reads the registry, so
\* streams do not influence each other or the runs
Streams == {1}
TaskIds == {"t1", "t2"}
NoTask == "none"
\* a task id that no generation request ever carries
StrangerId == "t0"
\* the ids a client polls or streams: one that generation requests carry
\* and one that none carries
WatchedIds == {"t1", StrangerId}

\* ------------------------------------------------------ program constants
DelayCompleted == 300
DelayFailed == 60
DelayImage == 60

VARIABLES
    task_progress,       \* api_server.task_progress: dict task_id -> record
    progress_callbacks,  \* video_generator.progress_callbacks: keys of the dict
    video_generator,     \* api_server.video_generator: 0 = None, else instance
    is_model_loaded,     \* VideoGenerator.is_model_loaded, per instance
    model,               \* VideoGenerator.model is not None, per instance
    wan_enabled,         \* config models.wan_i2v.enabled (model_path is set)
    loop_owner,          \* run whose handler occupies the event loop, 0 = free
    pc,                  \* position of each run
    kind,                \* "video" | "image" | "none"
    tid,                 \* request.task_id of each run
    generator,           \* local variable generator of each run, 0 = None
    response,            \* "none" | "ok" | "error": what the HTTP caller got
    unloads,             \* number of unload_model invocations made by the run
    cleanup,             \* "none" | "pending" | "fired"
    delay,               \* delay passed to cleanup_task_progress, 0 = none
    quota,               \* number of generation requests the clients send
    stream_quota,        \* number of stream requests the clients send
    img_loaded,          \* ImageGenerator.is_model_loaded
    pipe,                \* ImageGenerator.pipe is not None
    num_images,          \* request.num_images of an image run
    saved,               \* images of the run written to their output paths
    stream_pc,           \* "idle" | "sample" | "sleep" | "done"
    stream_task,         \* task_id of the stream request
    stream_terminal,     \* events with a terminal status emitted (capped at 2)
    stream_after,        \* an event was emitted after a terminal event
    poll_task,           \* task_id of the latest GET /task/progress/{task_id}
    poll_reply,          \* the record that request was answered with
    services,            \* main.py services["video_generator"] is not None
    main_status,         \* HTTP status of the latest main.py request, 0 = none
    edit_failed,         \* the pipeline call of the latest edit_image raised
    edit_result          \* "none" | "artifact" | "raised": how edit_image ended

vars == <<task_progress, progress_callbacks, video_generator, is_model_loaded,
          model, wan_enabled, loop_owner, pc, kind, tid, generator, response,
          unloads, cleanup, delay, quota, stream_quota, img_loaded, pipe,
          num_images, saved, stream_pc, stream_task, stream_terminal,
          stream_after, poll_task, poll_reply, services, main_status,
          edit_failed, edit_result>>

cfgVars == <<wan_enabled, quota, stream_quota>>
pollVars == <<poll_task, poll_reply>>
mainVars == <<services, main_status>>
editVars == <<edit_failed, edit_result>>
imgVars == <<img_loaded, pipe, num_images, saved>>
streamVars == <<stream_pc, stream_task, stream_terminal, stream_after>>

genVars == <<video_generator, is_model_loaded, model>>
runMeta == <<kind, tid, response, cleanup, delay>>

\* ------------------------------------------------------------- the registry
Rec(p, s, e, v) == [progress |-> p, status |-> s, error |-> e, video_path |-> v]

\* task_progress[t] = rec
Write(tp, t, rec) == [x \in (DOMAIN tp) \cup {t} |-> IF x = t THEN rec ELSE tp[x]]

\* del task_progress[t]
Delete(tp, t) == [x \in (DOMAIN tp) \ {t} |-> tp[x]]

Terminal == {"completed", "failed"}

\* the closure progress_callback(progress, status) of a handler for task t
progress_callback(tp, t, progress, status) ==
    Write(tp, t, Rec(progress, status, FALSE, FALSE))

\* VideoGenerator._update_progress: forwards only while t is registered
update_progress(tp, cbs, t, progress, status) ==
    IF t \in cbs THEN progress_callback(tp, t, progress, status) ELSE tp

\* --------------------------------------------------------------- helpers
Goto(r, l) == pc' = [pc EXCEPT ![r] = l]

LoopFree == loop_owner = 0

\* run_in_executor(None, f): f waits in the queue of the default thread pool
\* until one of its worker threads is free.
LoopPcs == {"idle", "queued", "got_gen", "thread_ok", "thread_err", "done"}
ThreadEntry == {"gg_check", "g_check", "u3_check"}
OnWorker(r) == kind[r] = "video" /\ pc[r] \notin LoopPcs \cup ThreadEntry
WorkerFree == Cardinality({q \in Runs : OnWorker(q)}) < MaxWorkers

InitState ==
    /\ task_progress = [x \in {} |-> Rec(0, "starting", FALSE, FALSE)]
    /\ progress_callbacks = {}
    /\ video_generator = 0
    /\ is_model_loaded = [g \in Runs |-> FALSE]
    /\ model = [g \in Runs |-> FALSE]
    /\ wan_enabled \in BOOLEAN
    /\ loop_owner = 0
    /\ pc = [r \in Runs |-> "idle"]
    /\ kind = [r \in Runs |-> "none"]
    /\ tid = [r \in Runs |-> NoTask]
    /\ generator = [r \in Runs |-> 0]
    /\ response = [r \in Runs |-> "none"]
    /\ unloads = [r \in Runs |-> 0]
    /\ cleanup = [r \in Runs |-> "none"]
    /\ delay = [r \in Runs |-> 0]
    /\ img_loaded = FALSE
    /\ pipe = FALSE
    /\ num_images = [r \in Runs |-> 0]
    /\ saved = [r \in Runs |-> 0]
    /\ stream_pc = [s \in Streams |-> "idle"]
    /\ stream_task = [s \in Streams |-> NoTask]
    /\ stream_terminal = [s \in Streams |-> 0]
    /\ stream_after = [s \in Streams |-> FALSE]
    /\ poll_task = NoTask
    /\ poll_reply = Rec(0, "none", FALSE, FALSE)
    /\ services = FALSE
    /\ main_status = 0
    /\ edit_failed = FALSE
    /\ edit_result = "none"

\* concurrent clients: MaxRuns generation requests, no stream
Init == InitState /\ quota = MaxRuns /\ stream_quota = 0

\* FewRuns generation requests watched by the progress streams
InitFew == InitState /\ quota = FewRuns /\ stream_quota = Cardinality(Streams)

\* a request is admitted in the order of the run numbers
Admit(r) ==
    /\ LoopFree
    /\ pc[r] = "idle"
    /\ r <= quota
    /\ \A q \in Runs : q < r => pc[q] # "idle"

\* ------------------------------------------------ POST /video/generate
\* The handler: create the record, schedule the orchestration, answer.
generate_video(r, t) ==
    /\ Admit(r)
    /\ task_progress' = Write(task_progress, t, Rec(0, "starting", FALSE, FALSE))
    /\ kind' = [kind EXCEPT ![r] = "video"]
    /\ tid' = [tid EXCEPT ![r] = t]
    /\ response' = [response EXCEPT ![r] = "ok"]
    /\ Goto(r, "queued")
    /\ UNCHANGED <<progress_callbacks, genVars, cfgVars, pollVars, mainVars, editVars, imgVars, streamVars, loop_owner,
                   generator, unloads, cleanup, delay>>

\* initialize_and_generate_video up to its first await
orchestrate_initializing(r) ==
    /\ LoopFree
    /\ pc[r] = "queued"
    /\ task_progress' = Write(task_progress, tid[r], Rec(5, "initializing", FALSE, FALSE))
    /\ Goto(r, "gg_check")
    /\ UNCHANGED <<progress_callbacks, genVars, cfgVars, pollVars, mainVars, editVars, imgVars, streamVars, loop_owner,
                   runMeta, generator, unloads>>

\* ------------------------------------------- get_video_generator (thread)
\* if video_generator is None:
get_video_generator_check(r) ==
    /\ pc[r] = "gg_check"
    /\ WorkerFree
    /\ Goto(r, IF video_generator = 0 THEN "gg_new" ELSE "gg_ret")
    /\ UNCHANGED <<task_progress, progress_callbacks, genVars, cfgVars, pollVars, mainVars, editVars, imgVars, streamVars,
                   loop_owner, runMeta, generator, unloads>>

\* video_generator = VideoGenerator(): the instance built by run r is r.
\* __init__ only reads the configuration and swallows every error.
get_video_generator_new(r) ==
    /\ pc[r] = "gg_new"
    /\ video_generator' = r
    /\ Goto(r, "gg_ret")
    /\ UNCHANGED <<task_progress, progress_callbacks, is_model_loaded, model,
                   cfgVars, pollVars, mainVars, editVars, imgVars, streamVars, loop_owner, runMeta, generator, unloads>>

\* return video_generator
get_video_generator_return(r) ==
    /\ pc[r] = "gg_ret"
    /\ generator' = [generator EXCEPT ![r] = video_generator]
    /\ Goto(r, "got_gen")
    /\ UNCHANGED <<task_progress, progress_callbacks, genVars, cfgVars, pollVars, mainVars, editVars, imgVars, streamVars,
                   loop_owner, runMeta, unloads>>

\* initialize_and_generate_video between its first and second await
orchestrate_processing(r) ==
    /\ LoopFree
    /\ pc[r] = "got_gen"
    /\ progress_callbacks' = progress_callbacks \cup {tid[r]}
    /\ task_progress' = Write(task_progress, tid[r], Rec(10, "processing", FALSE, FALSE))
    /\ Goto(r, "g_check")
    /\ UNCHANGED <<genVars, cfgVars, pollVars, mainVars, editVars, imgVars, streamVars, loop_owner, runMeta, generator, unloads>>

\* --------------------------------- VideoGenerator._initialize_model (thread)
\* A step of the thread of run r that only moves it and reports progress.
Report(r, from, p, s, to) ==
    /\ pc[r] = from
    /\ task_progress' = update_progress(task_progress, progress_callbacks, tid[r], p, s)
    /\ Goto(r, to)
    /\ UNCHANGED <<progress_callbacks, genVars, cfgVars, pollVars, mainVars, editVars, imgVars, streamVars, loop_owner,
                   runMeta, generator, unloads>>

Move(r, from, to) ==
    /\ pc[r] = from
    /\ Goto(r, to)
    /\ UNCHANGED <<task_progress, progress_callbacks, genVars, cfgVars, pollVars, mainVars, editVars, imgVars, streamVars,
                   loop_owner, runMeta, generator, unloads>>

\* generate_from_image: if not self.is_model_loaded:
generate_check_loaded(r) ==
    WorkerFree /\ Move(r, "g_check", IF is_model_loaded[generator[r]] THEN "g_check2" ELSE "g_upd5")

\* the load step reported under the status the image generator gives it
generate_report_initializing(r) == Report(r, "g_upd5", 5, "initializing", "i_check")

\* self._update_progress(task_id, 5, <loading the model>)
generate_report_loading(r) == Report(r, "g_upd5", 5, "msg_loading_model", "i_check")

\* _initialize_model: already loaded -> return; no usable model path ->
\* model_loaded = False and return (no exception).
initialize_model_check(r) ==
    /\ pc[r] = "i_check"
    /\ \E path_exists \in BOOLEAN :
         Goto(r, IF is_model_loaded[generator[r]] THEN "g_check2"
                 ELSE IF ~(wan_enabled /\ path_exists) THEN "g_check2"
                 ELSE "i_load")
    /\ UNCHANGED <<task_progress, progress_callbacks, genVars, cfgVars, pollVars, mainVars, editVars, imgVars, streamVars,
                   loop_owner, runMeta, generator, unloads>>

\* self.model = WanVideoPipeline.from_pretrained(...); on an exception the
\* handler clears the flags and raises RuntimeError.
initialize_model_load(r) ==
    /\ pc[r] = "i_load"
    /\ \E ok \in BOOLEAN :
         IF ok
         THEN /\ model' = [model EXCEPT ![generator[r]] = TRUE]
              /\ UNCHANGED is_model_loaded
              /\ Goto(r, "i_vram")
         ELSE /\ is_model_loaded' = [is_model_loaded EXCEPT ![generator[r]] = FALSE]
              /\ UNCHANGED model
              /\ Goto(r, "g_except")
    /\ UNCHANGED <<task_progress, progress_callbacks, video_generator,
                   cfgVars, pollVars, mainVars, editVars, imgVars, streamVars, loop_owner, runMeta, generator, unloads>>

\* self.model.enable_vram_management(...): fails when self.model is None
\* by now, or by itself; the handler clears the flags and raises.
initialize_model_vram(r) ==
    /\ pc[r] = "i_vram"
    /\ \E ok \in BOOLEAN :
         IF ok /\ model[generator[r]]
         THEN /\ UNCHANGED is_model_loaded
              /\ Goto(r, "i_flag")
         ELSE /\ is_model_loaded' = [is_model_loaded EXCEPT ![generator[r]] = FALSE]
              /\ Goto(r, "g_except")
    /\ UNCHANGED <<task_progress, progress_callbacks, video_generator, model,
                   cfgVars, pollVars, mainVars, editVars, imgVars, streamVars, loop_owner, runMeta, generator, unloads>>

\* self.model_loaded = True; self.is_model_loaded = True
initialize_model_flag(r) ==
    /\ pc[r] = "i_flag"
    /\ is_model_loaded' = [is_model_loaded EXCEPT ![generator[r]] = TRUE]
    /\ Goto(r, "g_check2")
    /\ UNCHANGED <<task_progress, progress_callbacks, video_generator, model,
                   cfgVars, pollVars, mainVars, editVars, imgVars, streamVars, loop_owner, runMeta, generator, unloads>>

\* ------------------------------ VideoGenerator.unload_model (thread)
\* a caller that invokes unload_model only on a handle it believes loaded
unload_model_check_if_loaded(r, from, body, ret) ==
    /\ pc[r] = from
    /\ unloads' = [unloads EXCEPT ![r] =
                      IF is_model_loaded[generator[r]] THEN @ + 1 ELSE @]
    /\ Goto(r, IF is_model_loaded[generator[r]] THEN body ELSE ret)
    /\ UNCHANGED <<task_progress, progress_callbacks, genVars, cfgVars, pollVars, mainVars, editVars, imgVars, streamVars,
                   loop_owner, runMeta, generator>>

\* if self.is_model_loaded:   (one invocation counted here)
unload_model_check(r, from, body, ret) ==
    /\ pc[r] = from
    /\ unloads' = [unloads EXCEPT ![r] = @ + 1]
    /\ Goto(r, IF is_model_loaded[generator[r]] THEN body ELSE ret)
    /\ UNCHANGED <<task_progress, progress_callbacks, genVars, cfgVars, pollVars, mainVars, editVars, imgVars, streamVars,
                   loop_owner, runMeta, generator>>

\* if self.model is not None: del self.model; self.model = None
unload_model_del(r, from, to) ==
    /\ pc[r] = from
    /\ model' = [model EXCEPT ![generator[r]] = FALSE]
    /\ Goto(r, to)
    /\ UNCHANGED <<task_progress, progress_callbacks, video_generator,
                   is_model_loaded, cfgVars, pollVars, mainVars, editVars, imgVars, streamVars, loop_owner, runMeta,
                   generator, unloads>>

\* an unload that frees the pipeline and leaves the flags as they are
unload_model_free_only(r, from, ret) ==
    /\ pc[r] = from
    /\ Goto(r, ret)
    /\ UNCHANGED <<task_progress, progress_callbacks, genVars, cfgVars, pollVars, mainVars, editVars,
                   imgVars, streamVars, loop_owner, runMeta, generator, unloads>>

\* self.model_loaded = False; self.is_model_loaded = False
unload_model_flag(r, from, ret) ==
    /\ pc[r] = from
    /\ is_model_loaded' = [is_model_loaded EXCEPT ![generator[r]] = FALSE]
    /\ Goto(r, ret)
    /\ UNCHANGED <<task_progress, progress_callbacks, video_generator, model,
                   cfgVars, pollVars, mainVars, editVars, imgVars, streamVars, loop_owner, runMeta, generator, unloads>>

\* ------------------------------ VideoGenerator.generate_from_image (thread)
\* if not self.is_model_loaded: raise RuntimeError
generate_check_available(r) ==
    Move(r, "g_check2", IF is_model_loaded[generator[r]] THEN "g_input" ELSE "g_except")

\* if not os.path.exists(image_path): raise FileNotFoundError
generate_check_input(r) ==
    \E exists \in BOOLEAN : Move(r, "g_input", IF exists THEN "g_upd10" ELSE "g_except")

\* progress 10, then Image.open(image_path) (may raise)
generate_open_image(r) ==
    \E ok \in BOOLEAN :
        Report(r, "g_upd10", 10, "msg_loading_input", IF ok THEN "g_upd20" ELSE "g_except")

\* progress 20, then a local PromptOptimizer().optimize(...), which raises
\* RuntimeError when its model cannot be loaded or run
generate_optimize_prompt(r) ==
    \E ok \in BOOLEAN :
        Report(r, "g_upd20", 20, "msg_optimizing_prompt", IF ok THEN "g_upd30" ELSE "g_warn")

\* except Exception as e: logger.warning(...); the original prompt is used
generate_optimize_fallback(r) == Move(r, "g_warn", "g_upd30")

generate_report_generating(r) == Report(r, "g_upd30", 30, "msg_generating_video", "g_run")

\* video_tensor = self.model(...): TypeError when self.model is None
generate_run_model(r) ==
    \E ok \in BOOLEAN :
        Move(r, "g_run", IF ok /\ model[generator[r]] THEN "g_upd80" ELSE "g_except")

\* progress 80, then save_video(...) (may raise)
generate_save_video(r) ==
    \E ok \in BOOLEAN :
        Report(r, "g_upd80", 80, "msg_saving_video", IF ok THEN "u1_check" ELSE "g_except")

\* self.unload_model() on the success path (line 243)
generate_unload(r) ==
    \/ unload_model_check(r, "u1_check", "u1_del", "g_upd100")
    \/ unload_model_del(r, "u1_del", "u1_flag")
    \/ unload_model_flag(r, "u1_flag", "g_upd100")

generate_report_done(r) == Report(r, "g_upd100", 100, "msg_video_done", "g_delcb")

\* a success path that returns without looking at progress_callbacks
generate_forget_never(r) == Move(r, "g_delcb", "thread_ok")

\* if task_id in progress_callbacks:
generate_forget_check(r) ==
    Move(r, "g_delcb", IF tid[r] \in progress_callbacks THEN "g_delcb2" ELSE "thread_ok")

\* del progress_callbacks[task_id]: KeyError when another run of the same
\* task_id removed the key in between; the KeyError enters the except block
generate_forget_del(r) ==
    /\ pc[r] = "g_delcb2"
    /\ progress_callbacks' = progress_callbacks \ {tid[r]}
    /\ Goto(r, IF tid[r] \in progress_callbacks THEN "thread_ok" ELSE "g_except")
    /\ UNCHANGED <<task_progress, genVars, cfgVars, pollVars, mainVars, editVars, imgVars, streamVars, loop_owner, runMeta,
                   generator, unloads>>

\* except Exception: progress 0 with the failure message
generate_except(r) == Report(r, "g_except", 0, "msg_generation_failed", "x_delcb")

generate_except_forget_check(r) ==
    Move(r, "x_delcb", IF tid[r] \in progress_callbacks THEN "x_delcb2" ELSE "u2_check")

\* del inside the except block: a KeyError here leaves generate_from_image
\* before its unload_model call (line 261)
generate_except_forget_del(r) ==
    /\ pc[r] = "x_delcb2"
    /\ progress_callbacks' = progress_callbacks \ {tid[r]}
    /\ Goto(r, IF tid[r] \in progress_callbacks THEN "u2_check" ELSE "thread_err")
    /\ UNCHANGED <<task_progress, genVars, cfgVars, pollVars, mainVars, editVars, imgVars, streamVars, loop_owner, runMeta,
                   generator, unloads>>

\* self.unload_model() on the error path (line 261), then raise
generate_except_unload(r) ==
    \/ unload_model_check(r, "u2_check", "u2_del", "thread_err")
    \/ unload_model_del(r, "u2_del", "u2_flag")
    \/ unload_model_flag(r, "u2_flag", "thread_err")

\* ------------------------- initialize_and_generate_video after the run
\* Schedule cleanup_task_progress(task_id, delay=d)
Schedule(r, d) ==
    /\ cleanup' = [cleanup EXCEPT ![r] = "pending"]
    /\ delay' = [delay EXCEPT ![r] = d]

\* the run returned: completed record, cleanup after 300 s, then finally
orchestrate_completed(r) ==
    /\ LoopFree
    /\ pc[r] = "thread_ok"
    /\ task_progress' = Write(task_progress, tid[r], Rec(100, "completed", FALSE, TRUE))
    /\ Schedule(r, DelayCompleted)
    /\ Goto(r, "u3_check")
    /\ UNCHANGED <<progress_callbacks, genVars, cfgVars, pollVars, mainVars, editVars, imgVars, streamVars, loop_owner, kind,
                   tid, response, generator, unloads>>

\* the run raised: failed record, cleanup after 60 s, then finally
orchestrate_failed(r) ==
    /\ LoopFree
    /\ pc[r] = "thread_err"
    /\ task_progress' = Write(task_progress, tid[r], Rec(0, "failed", TRUE, FALSE))
    /\ Schedule(r, DelayFailed)
    /\ Goto(r, "u3_check")
    /\ UNCHANGED <<progress_callbacks, genVars, cfgVars, pollVars, mainVars, editVars, imgVars, streamVars, loop_owner, kind,
                   tid, response, generator, unloads>>

\* finally: generator.unload_model on an executor thread
orchestrate_finally(r) ==
    \/ WorkerFree /\ unload_model_check(r, "u3_check", "u3_del", "done")
    \/ unload_model_del(r, "u3_del", "u3_flag")
    \/ unload_model_flag(r, "u3_flag", "done")

\* ------------------------------------------------ cleanup_task_progress
cleanup_task_progress(r) ==
    /\ LoopFree
    /\ cleanup[r] = "pending"
    /\ task_progress' = IF tid[r] \in DOMAIN task_progress
                        THEN Delete(task_progress, tid[r]) ELSE task_progress
    /\ cleanup' = [cleanup EXCEPT ![r] = "fired"]
    /\ UNCHANGED <<progress_callbacks, genVars, cfgVars, pollVars, mainVars, editVars, imgVars, streamVars, loop_owner, pc,
                   kind, tid, response, delay, generator, unloads>>

\* ------------------------------------------------ POST /image/generate
\* generate_image runs ImageGenerator.generate inside the handler.  Nothing
\* in it suspends, so from its first statement to its return no other
\* coroutine runs; only executor threads interleave with it.
ImageStep(r, from) == kind[r] = "image" /\ pc[r] = from /\ loop_owner = r

\* the statuses f"generating_image_{i+1}" of _generate_with_model
ImageStatus(i) == "generating_image_" \o ToString(i + 1)

\* progress = 30 + int((i / num_images) * 60)
ImageProgress(i, n) == 30 + (i * 60) \div n

\* ImageGenerator.unload_model
image_unload(loaded, p) == IF loaded THEN FALSE ELSE p

\* task_progress[task_id] = starting; generator = get_image_generator()
generate_image(r, t, n) ==
    /\ Admit(r)
    /\ task_progress' = Write(task_progress, t, Rec(0, "starting", FALSE, FALSE))
    /\ kind' = [kind EXCEPT ![r] = "image"]
    /\ tid' = [tid EXCEPT ![r] = t]
    /\ num_images' = [num_images EXCEPT ![r] = n]
    /\ loop_owner' = r
    /\ Goto(r, "m_cb5")
    /\ UNCHANGED <<progress_callbacks, genVars, cfgVars, pollVars, mainVars, editVars, streamVars, generator,
                   response, unloads, cleanup, delay, img_loaded, pipe, saved>>

\* a step of generate that calls progress_callback(p, s) and goes on
ImageReport(r, from, p, s, to) ==
    /\ ImageStep(r, from)
    /\ task_progress' = progress_callback(task_progress, tid[r], p, s)
    /\ Goto(r, to)
    /\ UNCHANGED <<progress_callbacks, genVars, cfgVars, pollVars, mainVars, editVars, imgVars, streamVars,
                   loop_owner, runMeta, generator, unloads>>

image_initializing(r) == ImageReport(r, "m_cb5", 5, "initializing", "m_load")

\* if not self.is_model_loaded or not self.pipe: self._initialize_model()
\* _initialize_flux_krea raises before touching the handle (module or path
\* missing, from_pretrained failed), or after self.pipe was assigned
\* (enable_sequential_cpu_offload failed), or sets the flags.
image_load(r) ==
    /\ ImageStep(r, "m_load")
    /\ IF img_loaded
       THEN /\ UNCHANGED <<img_loaded, pipe>>
            /\ Goto(r, IF pipe THEN "m_cb10" ELSE "m_except")
       ELSE \E outcome \in {"loaded", "failed_early", "failed_late"} :
               /\ pipe' = IF outcome = "failed_early" THEN pipe ELSE TRUE
               /\ img_loaded' = (outcome = "loaded")
               /\ Goto(r, IF outcome = "loaded" THEN "m_cb10" ELSE "m_except")
    /\ UNCHANGED <<task_progress, progress_callbacks, genVars, cfgVars, pollVars, mainVars, editVars,
                   streamVars, loop_owner, runMeta, generator, unloads,
                   num_images, saved>>

\* progress 10, then PromptOptimizer().optimize(...), whose failure raises
image_preparing(r) ==
    \E ok \in BOOLEAN :
        ImageReport(r, "m_cb10", 10, "preparing", IF ok THEN "m_cb20" ELSE "m_except")

image_optimized(r) == ImageReport(r, "m_cb20", 20, "optimizing_prompt", "m_cb30")

image_generating(r) == ImageReport(r, "m_cb30", 30, "generating", "m_img")

\* one iteration of the loop of _generate_with_model: report, run the
\* pipeline, save the image to image_paths[i]
image_generate_one(r) ==
    /\ ImageStep(r, "m_img")
    /\ task_progress' = progress_callback(task_progress, tid[r],
                            ImageProgress(saved[r], num_images[r]), ImageStatus(saved[r]))
    /\ \E ok \in BOOLEAN :
         IF ok /\ pipe
         THEN /\ saved' = [saved EXCEPT ![r] = @ + 1]
              /\ Goto(r, IF saved[r] + 1 = num_images[r] THEN "m_cb95" ELSE "m_img")
         ELSE /\ UNCHANGED saved
              /\ Goto(r, "m_except")
    /\ UNCHANGED <<progress_callbacks, genVars, cfgVars, pollVars, mainVars, editVars, streamVars, loop_owner,
                   runMeta, generator, unloads, img_loaded, pipe, num_images>>

\* progress 95, return generated_paths, self.unload_model() (line 201)
image_finalizing(r) ==
    /\ ImageStep(r, "m_cb95")
    /\ task_progress' = progress_callback(task_progress, tid[r], 95, "finalizing")
    /\ pipe' = image_unload(img_loaded, pipe)
    /\ img_loaded' = FALSE
    /\ unloads' = [unloads EXCEPT ![r] = @ + 1]
    /\ Goto(r, "m_done")
    /\ UNCHANGED <<progress_callbacks, genVars, cfgVars, pollVars, mainVars, editVars, streamVars, loop_owner,
                   runMeta, generator, num_images, saved>>

\* generate returned: completed record, cleanup, response, finally unload
image_completed(r) ==
    /\ ImageStep(r, "m_done")
    /\ task_progress' = Write(task_progress, tid[r], Rec(100, "completed", FALSE, FALSE))
    /\ Schedule(r, DelayImage)
    /\ response' = [response EXCEPT ![r] = "ok"]
    /\ pipe' = image_unload(img_loaded, pipe)
    /\ img_loaded' = FALSE
    /\ unloads' = [unloads EXCEPT ![r] = @ + 1]
    /\ loop_owner' = 0
    /\ Goto(r, "done")
    /\ UNCHANGED <<progress_callbacks, genVars, cfgVars, pollVars, mainVars, editVars, streamVars, kind, tid,
                   generator, num_images, saved>>

\* generate raised after its own unload_model (line 208): failed record,
\* cleanup, HTTP 500, and the unload_model of the finally block, which
\* finds the flag cleared by the first call
image_failed(r) ==
    /\ ImageStep(r, "m_except")
    /\ task_progress' = Write(task_progress, tid[r], Rec(0, "failed", TRUE, FALSE))
    /\ Schedule(r, DelayImage)
    /\ response' = [response EXCEPT ![r] = "error"]
    /\ pipe' = image_unload(FALSE, image_unload(img_loaded, pipe))
    /\ img_loaded' = FALSE
    /\ unloads' = [unloads EXCEPT ![r] = @ + 2]
    /\ loop_owner' = 0
    /\ Goto(r, "done")
    /\ UNCHANGED <<progress_callbacks, genVars, cfgVars, pollVars, mainVars, editVars, streamVars, kind, tid,
                   generator, num_images, saved>>

\* ------------------------------------- GET /task/progress/{task_id}/stream
\* task_progress.get(task_id, {"progress": 0, "status": "unknown"})
Lookup(tp, t) == IF t \in DOMAIN tp THEN tp[t] ELSE Rec(0, "unknown", FALSE, FALSE)

\* a loop that stops on success only
stream_break_on_completed(status) == status = "completed"

\* if progress.get("status") in ["completed", "failed"]: break
stream_break(status) == status \in {"completed", "failed"}

stream_task_progress(s, t) ==
    /\ LoopFree
    /\ stream_pc[s] = "idle"
    /\ s <= stream_quota
    /\ \A q \in Streams : q < s => stream_pc[q] # "idle"
    /\ stream_pc' = [stream_pc EXCEPT ![s] = "sample"]
    /\ stream_task' = [stream_task EXCEPT ![s] = t]
    /\ UNCHANGED <<task_progress, progress_callbacks, genVars, cfgVars, pollVars, mainVars, editVars, imgVars,
                   loop_owner, pc, runMeta, generator, unloads,
                   stream_terminal, stream_after>>

\* one round of generate_progress: read the record, yield it, stop on a
\* terminal status or go to sleep
generate_progress(s) ==
    /\ LoopFree
    /\ stream_pc[s] = "sample"
    /\ LET event == Lookup(task_progress, stream_task[s]) IN
         /\ stream_after' = [stream_after EXCEPT ![s] = @ \/ stream_terminal[s] > 0]
         /\ stream_terminal' = [stream_terminal EXCEPT ![s] =
                IF event.status \in Terminal /\ @ < 2 THEN @ + 1 ELSE @]
         /\ stream_pc' = [stream_pc EXCEPT ![s] =
                IF stream_break(event.status) THEN "done" ELSE "sleep"]
    /\ UNCHANGED <<task_progress, progress_callbacks, genVars, cfgVars, pollVars, mainVars, editVars, imgVars,
                   loop_owner, pc, runMeta, generator, unloads, stream_task>>

\* await asyncio.sleep(0.5) is over
generate_progress_wake(s) ==
    /\ LoopFree
    /\ stream_pc[s] = "sleep"
    /\ stream_pc' = [stream_pc EXCEPT ![s] = "sample"]
    /\ UNCHANGED <<task_progress, progress_callbacks, genVars, cfgVars, pollVars, mainVars, editVars, imgVars,
                   loop_owner, pc, runMeta, generator, unloads, stream_task,
                   stream_terminal, stream_after>>

\* ------------------------------------------- POST /storyboard/generate
\* The handler writes the starting record, takes the generator and calls
\* generator.generate(...), a method StoryboardGenerator does not have: the
\* AttributeError is raised before anything is awaited, the except branch
\* writes the failed record and answers 500.  No cleanup is scheduled and
\* nothing suspends, so the handler is one step of the event loop.
generate_storyboard(r, t) ==
    /\ Admit(r)
    /\ task_progress' = Write(Write(task_progress, t, Rec(0, "starting", FALSE, FALSE)),
                              t, Rec(0, "failed", TRUE, FALSE))
    /\ kind' = [kind EXCEPT ![r] = "storyboard"]
    /\ tid' = [tid EXCEPT ![r] = t]
    /\ response' = [response EXCEPT ![r] = "error"]
    /\ Goto(r, "done")
    /\ UNCHANGED <<progress_callbacks, genVars, cfgVars, pollVars, mainVars, editVars,
                   imgVars, streamVars, loop_owner, generator, unloads,
                   cleanup, delay>>

\* ------------------------------------------- main.py POST /video/generate
\* except Exception as e: raise HTTPException(status_code=500, ...)
\* (0 stands for no exception; HTTPException is an Exception)
except_500(status) == IF status # 0 THEN 500 ELSE 0

\* the body of the try block of ensure_service_loaded("video_generator")
load_video_service(enabled) == IF ~enabled THEN 503 ELSE 0

\* ensure_service_loaded: 0 when it returns the service, else the status
\* of the HTTPException that leaves it
ensure_service_loaded(loaded, enabled) ==
    IF loaded THEN 0 ELSE except_500(load_video_service(enabled))

\* the body of the try block of generate_video: image-to-video passes the
\* keyword duration, which generate_from_image does not take (TypeError,
\* written 1); text-to-video needs a prompt (HTTPException 400) and then
\* calls generate_from_text, which VideoGenerator does not have
\* (AttributeError, written 1)
main_video_body(ensured, has_image, has_prompt) ==
    IF ensured # 0 THEN ensured
    ELSE IF has_image THEN 1
    ELSE IF ~has_prompt THEN 400
    ELSE 1

main_generate_video(has_image, has_prompt) ==
    LET ensured == ensure_service_loaded(services, wan_enabled)
        raised == except_500(main_video_body(ensured, has_image, has_prompt))
    IN  /\ services' = (services \/ ensured = 0)
        /\ main_status' = IF raised = 0 THEN 200 ELSE raised
        /\ UNCHANGED <<task_progress, progress_callbacks, genVars, cfgVars,
                       pollVars, editVars, imgVars, streamVars, loop_owner, pc,
                       runMeta, generator, unloads>>

\* ------------------------------------------------ ImageEditor.edit_image
\* _create_mock_edited_image: shutil.copy2(image_path, output_path) and
\* return output_path; an error of the copy is raised
create_mock_edited_image(copy_ok) == IF copy_ok THEN "artifact" ELSE "raised"

\* _edit_with_model: the pipeline result is saved and output_path returned;
\* except Exception: return await self._create_mock_edited_image(...)
edit_with_model(pipe_ok, copy_ok) ==
    IF pipe_ok THEN "artifact" ELSE create_mock_edited_image(copy_ok)

\* edit_image on an ImageEditor instance.  The constructor loads the
\* pipeline and raises when that fails, and the class has no unload, so
\* the check of model_loaded and pipe passes on every instance.  A missing
\* input raises; a failure of the prompt optimizer is logged and the
\* original prompt used.
edit_image(exists, optimized, pipe_ok, copy_ok) ==
    /\ LoopFree
    /\ edit_failed' = (exists /\ ~pipe_ok)
    /\ edit_result' = IF exists THEN edit_with_model(pipe_ok, copy_ok) ELSE "raised"
    /\ UNCHANGED <<task_progress, progress_callbacks, genVars, cfgVars,
                   pollVars, mainVars, imgVars, streamVars, loop_owner, pc,
                   runMeta, generator, unloads>>

\* ------------------------------------------- GET /task/progress/{task_id}
\* a handler that registers the id it was asked about
get_task_progress_setdefault(t) ==
    /\ LoopFree
    /\ poll_task' = t
    /\ poll_reply' = Lookup(task_progress, t)
    /\ task_progress' = Write(task_progress, t, Lookup(task_progress, t))
    /\ UNCHANGED <<progress_callbacks, genVars, cfgVars, mainVars, editVars, imgVars,
                   streamVars, loop_owner, pc, runMeta, generator, unloads>>

\* progress = task_progress.get(task_id, {...}); return progress
get_task_progress(t) ==
    /\ LoopFree
    /\ poll_task' = t
    /\ poll_reply' = Lookup(task_progress, t)
    /\ UNCHANGED <<task_progress, progress_callbacks, genVars, cfgVars, mainVars, editVars,
                   imgVars, streamVars, loop_owner, pc, runMeta, generator, unloads>>

\* ------------------------------------------------------------ the system
VideoThread(r) ==
    \/ get_video_generator_check(r)
    \/ get_video_generator_new(r)
    \/ get_video_generator_return(r)
    \/ generate_check_loaded(r)
    \/ generate_report_loading(r)
    \/ initialize_model_check(r)
    \/ initialize_model_load(r)
    \/ initialize_model_vram(r)
    \/ initialize_model_flag(r)
    \/ generate_check_available(r)
    \/ generate_check_input(r)
    \/ generate_open_image(r)
    \/ generate_optimize_prompt(r)
    \/ generate_optimize_fallback(r)
    \/ generate_report_generating(r)
    \/ generate_run_model(r)
    \/ generate_save_video(r)
    \/ generate_unload(r)
    \/ generate_report_done(r)
    \/ generate_forget_check(r)
    \/ generate_forget_del(r)
    \/ generate_except(r)
    \/ generate_except_forget_check(r)
    \/ generate_except_forget_del(r)
    \/ generate_except_unload(r)
    \/ orchestrate_finally(r)

VideoLoop(r) ==
    \/ \E t \in TaskIds : generate_video(r, t)
    \/ orchestrate_initializing(r)
    \/ orchestrate_processing(r)
    \/ orchestrate_completed(r)
    \/ orchestrate_failed(r)

ImageLoop(r) ==
    \/ \E t \in TaskIds, n \in 1..NumImages : generate_image(r, t, n)
    \/ image_initializing(r)
    \/ image_load(r)
    \/ image_preparing(r)
    \/ image_optimized(r)
    \/ image_generating(r)
    \/ image_generate_one(r)
    \/ image_finalizing(r)
    \/ image_completed(r)
    \/ image_failed(r)

Stream(s) ==
    \/ \E t \in WatchedIds : stream_task_progress(s, t)
    \/ generate_progress(s)
    \/ generate_progress_wake(s)

Next ==
    \/ \E r \in Runs : VideoLoop(r)
    \/ \E r \in Runs : VideoThread(r)
    \/ \E r \in Runs : ImageLoop(r)
    \/ \E r \in Runs, t \in TaskIds : generate_storyboard(r, t)
    \/ \E r \in Runs : cleanup_task_progress(r)

NextFew == Next \/ \E s \in Streams : Stream(s)

Spec == Init /\ [][Next]_vars

SpecFew == InitFew /\ [][NextFew]_vars

\* FewRuns generation requests with the video model enabled, and a client
\* that polls
InitPoll == InitState /\ wan_enabled /\ quota = FewRuns /\ stream_quota = 0

NextPoll == Next \/ \E t \in WatchedIds : get_task_progress(t)

SpecPoll == InitPoll /\ [][NextPoll]_vars

\* FewRuns generation requests to api_server.py and requests to main.py
InitMain == InitState /\ quota = FewRuns /\ stream_quota = 0

NextMain ==
    \/ Next
    \/ \E has_image, has_prompt \in BOOLEAN :
          main_generate_video(has_image, has_prompt)

SpecMain == InitMain /\ [][NextMain]_vars

\* FewRuns generation requests to api_server.py and calls of
\* ImageEditor.edit_image
InitEdit == InitState /\ quota = FewRuns /\ stream_quota = 0

NextEdit ==
    \/ Next
    \/ \E exists, optimized, pipe_ok, copy_ok \in BOOLEAN :
          edit_image(exists, optimized, pipe_ok, copy_ok)

SpecEdit == InitEdit /\ [][NextEdit]_vars

\* What the scheduler guarantees: a coroutine that is ready is resumed, a
\* thread that can run does run, a timer that expired fires.  Whether a
\* client sends a further request is not guaranteed.
RunStep(r) == pc[r] # "idle" /\ (VideoLoop(r) \/ VideoThread(r) \/ ImageLoop(r))
StreamStep(s) == generate_progress(s) \/ generate_progress_wake(s)
Fairness ==
    /\ \A r \in Runs : WF_vars(RunStep(r))
    /\ \A r \in Runs : WF_vars(cleanup_task_progress(r))
    /\ \A s \in Streams : WF_vars(StreamStep(s))

FairSpec == SpecFew /\ Fairness

\* ================================================================ claims
Present(t) == t \in DOMAIN task_progress
IsTerminal(t) == Present(t) /\ task_progress[t].status \in Terminal
AllQuiet == \A r \in Runs : pc[r] \in {"idle", "done"}
SomeDone == \E r \in Runs : pc[r] = "done"

\* C1: once a record is completed or failed, a step either leaves it as
\* it is or deletes it.
C1_TerminalRecordIsFinal ==
    [][\A t \in TaskIds :
         IsTerminal(t) =>
             \/ t \notin DOMAIN task_progress'
             \/ task_progress'[t] = task_progress[t]]_vars

\* C2: while the record of a task (an id used by one run only) stays
\* non-terminal, its progress never decreases from one step to the next.
C2_ProgressNonDecreasing ==
    [][\A t \in TaskIds :
         /\ Cardinality({r \in Runs : tid'[r] = t}) <= 1
         /\ t \in DOMAIN task_progress
         /\ t \in DOMAIN task_progress'
         /\ task_progress[t].status \notin Terminal
         /\ task_progress'[t].status \notin Terminal
         => task_progress'[t].progress >= task_progress[t].progress]_vars

\* The load/run/unload section of the video model: from the first
\* statement of _initialize_model to the last statement of unload_model.
SectionPcs == {"i_check", "i_load", "i_vram", "i_flag", "g_check2", "g_input",
               "g_upd10", "g_upd20", "g_warn", "g_upd30", "g_run", "g_upd80",
               "u1_check", "u1_del", "u1_flag", "u2_del", "u2_flag",
               "u3_del", "u3_flag"}
InSection(r) == kind[r] = "video" /\ pc[r] \in SectionPcs

\* C3: at most one task is inside the load/run/unload section of the
\* video role at any instant.
C3_OneTaskInSection == Cardinality({r \in Runs : InSection(r)}) <= 1

\* C4: when every submitted task has finished, neither the video handle
\* nor the image handle holds a model.
C4_NothingLoadedWhenQuiet ==
    (AllQuiet /\ SomeDone) =>
        /\ video_generator # 0 =>
              ~model[video_generator] /\ ~is_model_loaded[video_generator]
        /\ ~pipe /\ ~img_loaded

C6_AnsweredBeforeWork ==
    \A r \in Runs : pc[r] \notin {"idle", "queued"} => response[r] = "ok"

\* C7: every record of the registry has one of the five statuses.
StatusEnum == {"starting", "initializing", "processing", "completed", "failed"}
C7_StatusInEnum ==
    \A t \in DOMAIN task_progress : task_progress[t].status \in StatusEnum

\* C8: a step that submits a task id whose record is present and not
\* terminal is answered with an error and leaves the record as it is.
C8_DuplicateSubmitRejected ==
    [][\A r \in Runs :
         /\ pc[r] = "idle"
         /\ pc'[r] # "idle"
         /\ Present(tid'[r])
         /\ ~IsTerminal(tid'[r])
         => /\ response'[r] = "error"
            /\ task_progress'[tid'[r]] = task_progress[tid'[r]]]_vars

\* C9: a stream has emitted at most one terminal event and nothing after
\* it; once it has emitted one it has ended, and a stream that has ended
\* has emitted exactly one, as its last event.
C9_OneTerminalEventLast ==
    \A s \in Streams :
        /\ stream_terminal[s] <= 1
        /\ ~stream_after[s]
        /\ stream_terminal[s] = 1 <=> stream_pc[s] = "done"

\* a stream over a task that failed has ended on its failed record
C9_Witness ==
    \E s \in Streams :
        /\ stream_pc[s] = "done"
        /\ stream_terminal[s] = 1
        /\ IsTerminal(stream_task[s])
        /\ task_progress[stream_task[s]].status = "failed"

\* C10: every stream that was opened ends.
C10_StreamEnds ==
    \A s \in Streams : (stream_pc[s] = "sample") ~> (stream_pc[s] = "done")

\* C11: a poll of an id that is not in the registry is answered with the
\* record {progress 0, status unknown} and leaves the registry as it was.
C11_PollUnknown ==
    [][(<<poll_task, poll_reply>>' # <<poll_task, poll_reply>>
          /\ poll_task' \notin DOMAIN task_progress)
       => /\ poll_reply' = Rec(0, "unknown", FALSE, FALSE)
          /\ task_progress' = task_progress]_vars

\* the id of a finished run was polled after its cleanup had removed it
C11_Witness ==
    /\ poll_task \in TaskIds
    /\ poll_reply.status = "unknown"
    /\ \E r \in Runs : tid[r] = poll_task /\ cleanup[r] = "fired"
    /\ poll_task \notin DOMAIN task_progress

\* C12: no step removes a record that is present with a non-terminal
\* status (cleanup is the only operation that removes records).
C12_CleanupOnlyTerminal ==
    [][\A t \in TaskIds :
         Present(t) /\ t \notin DOMAIN task_progress' => IsTerminal(t)]_vars

\* The positions of a run in which an exception has been raised and the
\* run has not yet written its terminal record.
RaisedPcs == {"g_warn", "g_except", "x_delcb", "x_delcb2", "u2_check", "u2_del",
              "u2_flag", "thread_err", "m_except"}

\* C13: once a failure has been raised in a run, the run stays on its
\* failure path, and it leaves that path only by writing the failed
\* record with an error string for its task.
C13_FailureLeadsToFailed ==
    [][\A r \in Runs :
         pc[r] \in RaisedPcs /\ pc'[r] \notin RaisedPcs
         => /\ pc'[r] \in {"u3_check", "done"}
            /\ tid[r] \in DOMAIN task_progress'
            /\ task_progress'[tid[r]].status = "failed"
            /\ task_progress'[tid[r]].error]_vars

\* C14: with the video model disabled in the configuration, the record of
\* a video task is never initializing or processing, and no run reaches
\* the loading of the model.
C14_DisabledFailsAtOnce ==
    ~wan_enabled =>
        \A r \in Runs :
            kind[r] = "video" =>
                /\ pc[r] \notin {"i_load", "i_vram", "i_flag"}
                /\ Present(tid[r]) =>
                      task_progress[tid[r]].status \notin {"initializing", "processing"}

\* C15: with the video model disabled, a request to main.py's
\* /video/generate is answered with status 503.
C15_DisabledAnswered503 ==
    (~wan_enabled /\ main_status # 0) => main_status = 503

\* C16: of two video tasks, the one submitted second is not initializing
\* (nor further) before the first has finished its last unload.
C16_SecondWaitsForFirst ==
    \A r1, r2 \in Runs :
        (r1 < r2 /\ kind[r1] = "video" /\ kind[r2] = "video"
           /\ pc[r2] \notin {"idle", "queued"})
        => pc[r1] = "done"

\* From the start of the load to the end of the run of the model.
UsePcs == {"i_check", "i_load", "i_vram", "i_flag", "g_check2", "g_input",
           "g_upd10", "g_upd20", "g_warn", "g_upd30", "g_run"}
\* Inside the body of unload_model (the handle is being released).
UnloadPcs == {"u1_del", "u1_flag", "u2_del", "u2_flag", "u3_del", "u3_flag"}

\* C17: no run is releasing a handle while another run is between the
\* start of its load and the end of its run on the same handle, and a run
\* that calls the model finds it present.
C17_HandleExclusive ==
    /\ \A r1, r2 \in Runs :
          (r1 # r2 /\ kind[r1] = "video" /\ kind[r2] = "video"
             /\ generator[r1] = generator[r2] /\ pc[r1] \in UnloadPcs)
          => pc[r2] \notin UsePcs
    /\ \A r \in Runs :
          kind[r] = "video" /\ pc[r] = "g_run" => model[generator[r]]

\* C18: every completed record has progress 100 and carries the reference
\* to the produced artifact.
C18_CompletedHasResult ==
    \A t \in DOMAIN task_progress :
        task_progress[t].status = "completed"
        => task_progress[t].progress = 100 /\ task_progress[t].video_path

\* C19: the step of a run that schedules its cleanup passes delay 300 when
\* the record it wrote is completed and 60 when it is failed.
C19_DelayByOutcome ==
    [][\A r \in Runs :
         cleanup[r] = "none" /\ cleanup'[r] = "pending"
         => delay'[r] = IF task_progress'[tid'[r]].status = "completed"
                        THEN 300 ELSE 60]_vars

\* C20: every terminal record of the registry has a cleanup pending for
\* its task id.
C20_TerminalHasCleanup ==
    \A t \in TaskIds :
        IsTerminal(t) => \E r \in Runs : tid[r] = t /\ cleanup[r] = "pending"

\* the place of a status on the path starting, initializing, processing
\* (0 for any other status)
StatusRank(s) ==
    IF s = "starting" THEN 1
    ELSE IF s = "initializing" THEN 2
    ELSE IF s = "processing" THEN 3
    ELSE 0

LoadPcs == {"i_load", "i_vram", "i_flag"}

\* C22: a video run is loading its model only while its record is
\* initializing, and a record in status processing belongs to a run whose
\* handle is loaded.
C22_LoadOnlyInitializing ==
    \A r \in Runs :
        (kind[r] = "video" /\ pc[r] # "done" /\ Present(tid[r])) =>
            /\ pc[r] \in LoadPcs => task_progress[tid[r]].status = "initializing"
            /\ task_progress[tid[r]].status = "processing" =>
                  generator[r] # 0 /\ is_model_loaded[generator[r]]

\* C23: a step adds a key to the registry only by submitting a task with
\* that id; no progress update creates a record.
C23_UpdateCreatesNoKey ==
    [][\A t \in TaskIds :
         (t \notin DOMAIN task_progress /\ t \in DOMAIN task_progress')
         => \E r \in Runs : pc[r] = "idle" /\ pc'[r] # "idle" /\ tid'[r] = t]_vars

\* C24: a load that returns to its caller without raising has loaded the
\* handle (a load that did not load raises and leaves the flag false):
\* _initialize_model returns to generate_from_image at its availability
\* check, ImageGenerator._initialize_model to generate at its report 10.
C24_LoadSignalsFailure ==
    [][\A r \in Runs :
         /\ (pc[r] \in {"i_check"} \cup LoadPcs /\ pc'[r] = "g_check2")
               => is_model_loaded'[generator[r]]
         /\ (pc[r] \in {"i_check"} \cup LoadPcs /\ pc'[r] = "g_except")
               => ~is_model_loaded'[generator[r]]
         /\ (pc[r] = "m_load" /\ pc'[r] = "m_cb10") => img_loaded'
         /\ (pc[r] = "m_load" /\ pc'[r] = "m_except") => ~img_loaded']_vars

\* C25: an edit_image call whose pipeline call failed ends by raising; it
\* does not return an artifact path.
C25_RunFailurePropagates == edit_failed => edit_result = "raised"

\* The first and the last statement of unload_model, and where it returns.
UnloadEntry == {"u1_check", "u2_check", "u3_check"}
UnloadExit == {"u1_flag", "u2_flag", "u3_flag"}
UnloadReturn == {"g_upd100", "thread_err", "done"}

C27_NoPartialArtifacts ==
    \A r \in Runs :
        (kind[r] = "image" /\ pc[r] = "done" /\ response[r] = "error")
        => saved[r] = 0

\* no run is inside the body of _initialize_model or of unload_model on
\* the instance g
HandleAtRest(g) ==
    \A r \in Runs :
        (kind[r] = "video" /\ generator[r] = g) => pc[r] \notin LoadPcs \cup UnloadPcs

\* C28: whenever no load or unload is in progress on a VideoGenerator
\* instance, its loaded flag is true exactly when it holds a pipeline.
C28_FlagMatchesModel ==
    \A g \in Runs :
        HandleAtRest(g) => (is_model_loaded[g] <=> model[g])

\* C29: the VideoGenerator instance, once constructed, is never replaced
\* by another one, and every run that got a generator holds that instance.
C29_OneInstance ==
    [][/\ video_generator # 0 => video_generator' = video_generator
       /\ \A r \in Runs :
             generator'[r] # 0 => generator'[r] = video_generator']_vars

\* From the registration of the callback (set_progress_callback, followed
\* by the start of generate_from_image) to the return or raise of
\* generate_from_image.
GeneratePcs == {"g_check", "g_upd5", "i_check", "i_load", "i_vram", "i_flag",
                "g_check2", "g_input", "g_upd10", "g_upd20", "g_warn", "g_upd30",
                "g_run", "g_upd80", "u1_check", "u1_del", "u1_flag", "g_upd100",
                "g_delcb", "g_delcb2", "g_except", "x_delcb", "x_delcb2",
                "u2_check", "u2_del", "u2_flag"}
InGenerate(r) == kind[r] = "video" /\ pc[r] \in GeneratePcs

\* C30: progress_callbacks holds an entry for a task id only while a
\* generate_from_image for that id is pending or running: once it has
\* returned or raised, the entry is gone.
C30_CallbacksForgotten ==
    \A t \in TaskIds :
        t \in progress_callbacks => \E r \in Runs : tid[r] = t /\ InGenerate(r)

\* generate_from_image has just returned, or just raised, and the map is
\* empty
C30_Witness ==
    \E r \in Runs :
        /\ kind[r] = "video"
        /\ pc[r] \in {"thread_ok", "thread_err"}
        /\ progress_callbacks = {}

====
